---------------------------- MODULE Spec2Model ----------------------------
(***************************************************************************)
(* Model of audio_lyrics_fetcher.py: the lyrics fallback chain             *)
(* (LyricsFetcher.fetch_lyrics) and the batch run over a directory         *)
(* (AudioParser.process_directory / process_audio_file / save_lyrics).     *)
(*                                                                         *)
(* Texts are sequences of one-character strings.  Python's None and a      *)
(* missing file are one-element sequences whose element is no character    *)
(* of the alphabet, so every optional text is a sequence of strings.       *)
(***************************************************************************)
EXTENDS Naturals, Sequences, FiniteSets

\* ------------------------------------------------------------------ bounds
\* Longest text a provider returns.
MaxLen == 2
\* Audio files the directory can hold, numbered in sorted path order.
MaxPaths == 3
\* Runs of the program (processes started) in one behaviour.
MaxRuns == 2

\* ------------------------------------------------------------ program data
\* main() builds AudioParser(directory, delay=2.0).
Delay == 2

None == <<"None">>
Absent == <<"ENOENT">>
\* Content of a sidecar that was on disk before the first run.
OldText == <<"o", "l", "d">>

Whitespace == {" "}
Chars == {" ", "a"}

\* Every text of at most MaxLen characters, the empty one included.
Texts == UNION {[1..n -> Chars] : n \in 0..MaxLen}

\* Python truthiness of an optional string: neither None nor "".
Truthy(x) == x # None /\ x # <<>>

\* str.strip(): the text from its first to its last character that is not
\* whitespace, the empty text when it has none.
Strip(t) ==
    LET keep == {i \in 1..Len(t) : t[i] \notin Whitespace}
    IN  IF keep = {} THEN <<>>
        ELSE SubSeq(t,
                    CHOOSE i \in keep : \A j \in keep : i <= j,
                    CHOOSE i \in keep : \A j \in keep : j <= i)

\* ---------------------------------------------------------------- sources
\* Priority order of fetch_lyrics: LRCLIB, ChartLyrics, lyrics.ovh.
Sources == <<"lrclib", "chartlyrics", "ovh">>
SourceSet == {Sources[i] : i \in 1..Len(Sources)}

\* What a provider does with one request: the request raises (timeout,
\* connection error, malformed body), the status is not 200, or the status
\* is 200 and the payload carries a lyrics text, possibly empty.
Failed == <<"Exception">>
HttpError == <<"Status">>
Responses == {Failed, HttpError} \cup Texts

\* fetch_lyrics_lrclib / _chartlyrics / _ovh: the text when it is truthy,
\* None for everything else; never raises.
SourceResult(resp) ==
    IF resp = Failed \/ resp = HttpError THEN None
    ELSE IF resp # <<>> THEN resp
    ELSE None

\* What the three providers would answer to one request.
Webs == [SourceSet -> Responses]

\* Whether a source returned a text or None.
Kind(r) == IF r = None THEN "absent" ELSE "present"

\* A faulty fetch_lyrics: every source is consulted and the last one with a
\* text wins.
FetchLyricsLastWins(web) ==
    LET r1 == SourceResult(web["lrclib"])
        r2 == SourceResult(web["chartlyrics"])
        r3 == SourceResult(web["ovh"])
        all == <<Kind(r1), Kind(r2), Kind(r3)>>
    IN  IF Truthy(r3)
        THEN [lyrics |-> Strip(r3), calls |-> Sources, got |-> all]
        ELSE IF Truthy(r2)
        THEN [lyrics |-> Strip(r2), calls |-> Sources, got |-> all]
        ELSE IF Truthy(r1)
        THEN [lyrics |-> Strip(r1), calls |-> Sources, got |-> all]
        ELSE [lyrics |-> None, calls |-> Sources, got |-> all]

\* A faulty fetch_lyrics: "" instead of None when no source has a text.
FetchLyricsEmptyWhenNone(web) ==
    LET r1 == SourceResult(web["lrclib"])
        r2 == SourceResult(web["chartlyrics"])
        r3 == SourceResult(web["ovh"])
    IN  IF Truthy(r1)
        THEN [lyrics |-> Strip(r1), calls |-> <<"lrclib">>,
              got |-> <<Kind(r1)>>]
        ELSE IF Truthy(r2)
        THEN [lyrics |-> Strip(r2), calls |-> <<"lrclib", "chartlyrics">>,
              got |-> <<Kind(r1), Kind(r2)>>]
        ELSE IF Truthy(r3)
        THEN [lyrics |-> Strip(r3), calls |-> Sources,
              got |-> <<Kind(r1), Kind(r2), Kind(r3)>>]
        ELSE [lyrics |-> <<>>, calls |-> Sources,
              got |-> <<Kind(r1), Kind(r2), Kind(r3)>>]

\* LyricsFetcher.fetch_lyrics: the sources one after the other, the first
\* truthy result stripped and returned, None when none is truthy.  calls
\* lists the sources consulted and got whether each of them returned a text
\* ("present") or None ("absent").  lyrics.ovh is asked with the artist and
\* title cleaned of punctuation; what a provider answers is an input here,
\* whatever it was asked.
FetchLyrics(web) ==
    LET r1 == SourceResult(web["lrclib"])
        r2 == SourceResult(web["chartlyrics"])
        r3 == SourceResult(web["ovh"])
    IN  IF Truthy(r1)
        THEN [lyrics |-> Strip(r1), calls |-> <<"lrclib">>,
              got |-> <<Kind(r1)>>]
        ELSE IF Truthy(r2)
        THEN [lyrics |-> Strip(r2), calls |-> <<"lrclib", "chartlyrics">>,
              got |-> <<Kind(r1), Kind(r2)>>]
        ELSE IF Truthy(r3)
        THEN [lyrics |-> Strip(r3), calls |-> Sources,
              got |-> <<Kind(r1), Kind(r2), Kind(r3)>>]
        ELSE [lyrics |-> None, calls |-> Sources,
              got |-> <<Kind(r1), Kind(r2), Kind(r3)>>]

\* Every outcome fetch_lyrics can have, over all answers of the providers.
FetchOutcomes == {FetchLyrics(w) : w \in Webs}

\* ------------------------------------------------------------------ files
\* Audio paths in sorted order: 1 = a.flac, 2 = a.mp3, 3 = b.flac, 4 = b.mp3,
\* ...  Two paths with one stem share one sidecar.
Paths == 1..MaxPaths

\* Path.suffix.lower()
Suffix(p) == IF p % 2 = 1 THEN ".flac" ELSE ".mp3"

\* audio_path.with_suffix('.txt'), named by the stem: 1 = a.txt, 2 = b.txt.
TxtPath(p) == (p + 1) \div 2

Sidecars == {TxtPath(p) : p \in Paths}

\* What the tag reader finds in a file: it raises (corrupt file), or the
\* artist and title tags, each missing (None), empty or a name.
Unreadable == <<"Unreadable">>
TagValues == {None, <<>>, <<"a">>}
TagStates == {<<Unreadable, Unreadable>>} \cup (TagValues \X TagValues)

\* AudioParser.extract_metadata: (artist, title) of a supported suffix,
\* (None, None) for an unsupported one or when reading raises.
ExtractMetadata(p, tags) ==
    IF Suffix(p) \notin {".flac", ".mp3", ".m4a", ".mp4"} THEN <<None, None>>
    ELSE IF tags[1] = Unreadable THEN <<None, None>>
    ELSE tags

\* A faulty test of the metadata: the title is not looked at.
MissingMetadataArtistOnly(artist, title) == ~Truthy(artist)

\* process_audio_file: "if not artist or not title"
MissingMetadata(artist, title) == ~Truthy(artist) \/ ~Truthy(title)

\* A faulty existence test: the sidecar is never found.
SidecarExistsNever(d, s) == FALSE

\* A faulty existence test: an empty sidecar counts as missing.
SidecarExistsNonEmpty(d, s) == d[s] # Absent /\ d[s] # <<>>

\* txt_path.exists()
SidecarExists(d, s) == d[s] # Absent

\* What the file system does with one save: the write completes, open()
\* raises (unwritable destination), or write() raises after open() created
\* and truncated the file, with only the first cut characters written.
WriteOutcomes(t) ==
    {[kind |-> "ok", cut |-> Len(t)], [kind |-> "open_fails", cut |-> 0]}
        \cup {[kind |-> "write_fails", cut |-> n] : n \in 0..(Len(t) - 1)}

\* A faulty save_lyrics: True is returned whatever happened.
SaveLyricsAlwaysTrue(d, s, lyrics, w) ==
    [disk |-> IF w.kind = "open_fails" THEN d
              ELSE [d EXCEPT ![s] = SubSeq(lyrics, 1, w.cut)],
     ok |-> TRUE]

\* AudioParser.save_lyrics: open(txt_path, 'w') and f.write(lyrics) under
\* "except Exception"; the disk afterwards and the value returned.
SaveLyrics(d, s, lyrics, w) ==
    [disk |-> IF w.kind = "open_fails" THEN d
              ELSE [d EXCEPT ![s] = SubSeq(lyrics, 1, w.cut)],
     ok |-> w.kind = "ok"]

\* A faulty pacing: the delay also follows a file with missing metadata.
SleepEveryFile(existed, missing) == IF existed THEN 0 ELSE Delay

\* time.sleep(self.delay) is the last statement of process_audio_file: the
\* two early returns (sidecar exists, metadata missing) do not reach it.
Sleep(existed, missing) == IF existed \/ missing THEN 0 ELSE Delay

\* ------------------------------------------------------------------ state
VARIABLES
    dir,          \* the root directory: whether it exists, its audio files
    disk,         \* sidecar -> its content, or Absent
    pc,           \* "idle": no run yet, or the last one returned at once;
                  \* "loop": inside process_directory's loop; "done": the
                  \* last run printed its summary; "killed": the last run
                  \* was interrupted
    queue,        \* the sorted audio files the loop has still to process
    run,          \* runs of the program started so far
    processed,    \* AudioParser.processed
    found,        \* AudioParser.found
    errors,       \* AudioParser.errors
    now,          \* time slept by this run (time.sleep)
    last,         \* what the latest process_audio_file call did
    tally,        \* history of this run: files by what happened to them
    diskAtStart,  \* the disk when this run started
    ranBefore,    \* runs that had printed their summary when this run started
    net           \* what each provider would answer to the request at hand
                  \* (SpecFetch; the batch draws from FetchOutcomes instead)

vars == <<dir, disk, pc, queue, run, processed, found, errors, now, last,
          tally, diskAtStart, ranBefore, net>>

\* No call of process_audio_file yet in this run.
NoLast ==
    [path |-> 0, existed |-> FALSE, extracted |-> FALSE, artist |-> None,
     title |-> None, calls |-> <<>>, got |-> <<>>, lyrics |-> None,
     opened |-> FALSE, saved |-> FALSE, outcome |-> "none", now0 |-> 0,
     found0 |-> 0, errors0 |-> 0, processed0 |-> 0]

NoTally == [invoked |-> 0, missing |-> 0, absent |-> 0, saveFailed |-> 0]

NoNet == [s \in SourceSet |-> Failed]

\* sorted(audio_files): paths are numbered in sorted order.
RECURSIVE Sorted(_)
Sorted(S) ==
    IF S = {} THEN <<>>
    ELSE LET m == CHOOSE x \in S : \A y \in S : x <= y
         IN  <<m>> \o Sorted(S \ {m})

Init ==
    /\ dir \in {[exists |-> FALSE, audio |-> {}]}
                \cup {[exists |-> TRUE, audio |-> A] : A \in SUBSET Paths}
    /\ disk \in [Sidecars -> {Absent, OldText}]
    /\ pc = "idle"
    /\ queue = <<>>
    /\ run = 0
    /\ processed = 0
    /\ found = 0
    /\ errors = 0
    /\ now = 0
    /\ last = NoLast
    /\ tally = NoTally
    /\ diskAtStart = disk
    /\ ranBefore = 0
    /\ net = NoNet

\* main(): AudioParser.__init__ (counters at zero) and process_directory up
\* to its loop: return when the directory does not exist or holds no audio
\* file, else iterate over the sorted, de-duplicated paths.
StartRun ==
    /\ pc \in {"idle", "done", "killed"}
    /\ run < MaxRuns
    /\ run' = run + 1
    /\ processed' = 0
    /\ found' = 0
    /\ errors' = 0
    /\ now' = 0
    /\ last' = NoLast
    /\ tally' = NoTally
    /\ diskAtStart' = disk
    /\ ranBefore' = IF pc = "done" THEN ranBefore + 1 ELSE ranBefore
    /\ IF ~dir.exists \/ dir.audio = {}
       THEN pc' = "idle" /\ queue' = <<>>
       ELSE pc' = "loop" /\ queue' = Sorted(dir.audio)
    /\ UNCHANGED <<dir, disk, net>>

\* What one call process_audio_file(p) does, given what the tag reader
\* finds (tags), what fetch_lyrics comes to (f) and what the file system
\* does with the save (w).
Step(p, tags, f, w) ==
    LET s == TxtPath(p)
        existed == SidecarExists(disk, s)
        md == ExtractMetadata(p, tags)
        missing == MissingMetadata(md[1], md[2])
        fetched == ~existed /\ ~missing
        hasLyrics == fetched /\ Truthy(f.lyrics)
        sv == SaveLyrics(disk, s, f.lyrics, w)
        saved == hasLyrics /\ sv.ok
    IN  [disk |-> IF hasLyrics THEN sv.disk ELSE disk,
         found |-> IF saved THEN found + 1 ELSE found,
         errors |-> IF ~existed /\ (missing \/ ~hasLyrics)
                    THEN errors + 1 ELSE errors,
         processed |-> IF fetched THEN processed + 1 ELSE processed,
         slept |-> Sleep(existed, ~existed /\ missing),
         last |-> [path |-> p,
                   existed |-> existed,
                   extracted |-> ~existed,
                   artist |-> IF existed THEN None ELSE md[1],
                   title |-> IF existed THEN None ELSE md[2],
                   calls |-> IF fetched THEN f.calls ELSE <<>>,
                   got |-> IF fetched THEN f.got ELSE <<>>,
                   lyrics |-> IF fetched THEN f.lyrics ELSE None,
                   opened |-> hasLyrics /\ w.kind # "open_fails",
                   saved |-> saved,
                   outcome |-> IF existed THEN "AlreadyHasLyrics"
                               ELSE IF missing THEN "MissingMetadata"
                               ELSE IF ~hasLyrics THEN "LyricsNotFound"
                               ELSE IF saved THEN "LyricsFetched"
                               ELSE "SaveFailed",
                   now0 |-> now,
                   found0 |-> found,
                   errors0 |-> errors,
                   processed0 |-> processed],
         tally |-> [invoked |-> tally.invoked + (IF fetched THEN 1 ELSE 0),
                    missing |-> tally.missing
                                + (IF ~existed /\ missing THEN 1 ELSE 0),
                    absent |-> tally.absent
                               + (IF fetched /\ f.lyrics = None THEN 1 ELSE 0),
                    saveFailed |-> tally.saveFailed
                                   + (IF hasLyrics /\ ~saved THEN 1 ELSE 0)]]

\* The inputs process_audio_file(p) reads on the disk as it is: nothing but
\* the disk when the sidecar exists, the tags alone when the metadata is
\* missing, no save when no lyrics come back.  Inputs it does not read are
\* fixed.
Inputs(p) ==
    LET t0 == <<None, None>>
        f0 == [lyrics |-> None, calls |-> <<>>, got |-> <<>>]
        w0 == [kind |-> "ok", cut |-> 0]
    IN  IF SidecarExists(disk, TxtPath(p)) THEN {<<t0, f0, w0>>}
        ELSE UNION {
            LET md == ExtractMetadata(p, tags)
            IN  IF MissingMetadata(md[1], md[2]) THEN {<<tags, f0, w0>>}
                ELSE UNION {
                    IF Truthy(f.lyrics)
                    THEN {<<tags, f, w>> : w \in WriteOutcomes(f.lyrics)}
                    ELSE {<<tags, f, w0>>} : f \in FetchOutcomes}
            : tags \in TagStates}

\* One iteration of "for audio_path in sorted(audio_files)":
\* process_audio_file on the next path, run to its end.
ProcessAudioFile ==
    /\ pc = "loop"
    /\ queue # <<>>
    /\ \E in \in Inputs(Head(queue)) :
         LET r == Step(Head(queue), in[1], in[2], in[3])
         IN  /\ disk' = r.disk
             /\ found' = r.found
             /\ errors' = r.errors
             /\ processed' = r.processed
             /\ now' = now + r.slept
             /\ last' = r.last
             /\ tally' = r.tally
    /\ queue' = Tail(queue)
    /\ UNCHANGED <<dir, pc, run, diskAtStart, ranBefore, net>>

\* The loop is over: process_directory prints the summary and main returns.
Summary ==
    /\ pc = "loop"
    /\ queue = <<>>
    /\ pc' = "done"
    /\ UNCHANGED <<dir, disk, queue, run, processed, found, errors, now,
                   last, tally, diskAtStart, ranBefore, net>>

\* A process-level interruption (SIGINT, SIGKILL) while process_audio_file
\* runs on the next path.  KeyboardInterrupt is no Exception, so nothing
\* catches it and the process ends.  The interruption falls before
\* save_lyrics opens the sidecar (the disk is as it was), or after
\* open(txt_path, 'w') created the file, with only the first n characters
\* of the text written (n from none to all of them).
Interrupt ==
    /\ pc = "loop"
    /\ queue # <<>>
    /\ LET p == Head(queue)
           s == TxtPath(p)
       IN  \/ /\ last' = [NoLast EXCEPT !.path = p,
                                        !.existed = SidecarExists(disk, s),
                                        !.outcome = "Interrupted"]
              /\ disk' = disk
           \/ /\ ~SidecarExists(disk, s)
              /\ \E tags \in TagStates, f \in FetchOutcomes :
                   LET md == ExtractMetadata(p, tags)
                   IN  /\ ~MissingMetadata(md[1], md[2])
                       /\ Truthy(f.lyrics)
                       /\ \E n \in 0..Len(f.lyrics) :
                            /\ disk' = [disk EXCEPT
                                          ![s] = SubSeq(f.lyrics, 1, n)]
                            /\ last' = [NoLast EXCEPT
                                          !.path = p,
                                          !.extracted = TRUE,
                                          !.artist = md[1],
                                          !.title = md[2],
                                          !.calls = f.calls,
                                          !.got = f.got,
                                          !.lyrics = f.lyrics,
                                          !.opened = TRUE,
                                          !.outcome = "Interrupted"]
    /\ pc' = "killed"
    /\ queue' = <<>>
    /\ UNCHANGED <<dir, run, processed, found, errors, now, tally,
                   diskAtStart, ranBefore, net>>

Next == StartRun \/ ProcessAudioFile \/ Summary \/ Interrupt

Spec == Init /\ [][Next]_vars

\* --------------------------------------------- the fallback chain alone
\* fetch_lyrics as a function of what the three providers would answer:
\* every combination of answers is an initial state, and Fetch applies
\* fetch_lyrics to it.  The batch does not run here.
InitFetch ==
    /\ dir = [exists |-> FALSE, audio |-> {}]
    /\ disk = [s \in Sidecars |-> Absent]
    /\ pc = "fetch"
    /\ queue = <<>>
    /\ run = 0
    /\ processed = 0
    /\ found = 0
    /\ errors = 0
    /\ now = 0
    /\ last = NoLast
    /\ tally = NoTally
    /\ diskAtStart = disk
    /\ ranBefore = 0
    /\ net \in Webs

\* lyrics = self.lyrics_fetcher.fetch_lyrics(artist, title)
Fetch ==
    /\ pc = "fetch"
    /\ last.outcome = "none"
    /\ LET f == FetchLyrics(net)
       IN  last' = [NoLast EXCEPT !.calls = f.calls,
                                  !.got = f.got,
                                  !.lyrics = f.lyrics,
                                  !.outcome = "Fetched"]
    /\ UNCHANGED <<dir, disk, pc, queue, run, processed, found, errors,
                   now, tally, diskAtStart, ranBefore, net>>

\* The next request meets providers with other answers.
NextRequest ==
    /\ pc = "fetch"
    /\ last.outcome = "Fetched"
    /\ net' \in Webs
    /\ last' = NoLast
    /\ UNCHANGED <<dir, disk, pc, queue, run, processed, found, errors,
                   now, tally, diskAtStart, ranBefore>>

NextFetch == Fetch \/ NextRequest

SpecFetch == InitFetch /\ [][NextFetch]_vars

\* ----------------------------------------------------------------- claims
\* A call of process_audio_file that ran to its end is on record.
Done == last.path # 0 /\ last.outcome # "Interrupted"

\* The sidecar of the file the latest call worked on.
LastTxt == TxtPath(last.path)

\* The indices, in priority order, of the sources that would return a text.
Present == {i \in 1..Len(Sources) : Truthy(SourceResult(net[Sources[i]]))}

FirstPresent == CHOOSE i \in Present : \A j \in Present : i <= j

C2_NeverOverwrites ==
    [][\A s \in Sidecars : disk[s] # Absent => disk'[s] = disk[s]]_vars

\* a.flac had no sidecar when the run started and got one; a.mp3, which
\* shares a.txt, then took the skip path.
C2_Witness ==
    /\ Done
    /\ last.path = 2
    /\ last.outcome = "AlreadyHasLyrics"
    /\ diskAtStart[1] = Absent
    /\ Truthy(disk[1])

\* C3: a file without a sidecar whose metadata lacks the artist or the
\* title (None or empty) is not passed to fetch_lyrics, gets no sidecar and
\* adds exactly one to the error counter.
C3_MissingMetadataIsAnError ==
    (/\ Done
     /\ ~last.existed
     /\ (~Truthy(last.artist) \/ ~Truthy(last.title))) =>
        /\ last.calls = <<>>
        /\ disk[LastTxt] = Absent
        /\ errors = last.errors0 + 1

\* An artist but an empty title.
C3_Witness ==
    /\ Done
    /\ ~last.existed
    /\ last.artist = <<"a">>
    /\ last.title = <<>>
    /\ errors = 1

\* C4 as stated: in a run that follows a complete run over the same
\* directory, every file takes the skip path: no extraction, no fetch,
\* nothing added to found and errors.
C4_SecondRunSkipsEveryFile ==
    (Done /\ ranBefore >= 1) =>
        /\ last.outcome = "AlreadyHasLyrics"
        /\ ~last.extracted
        /\ last.calls = <<>>
        /\ found = 0
        /\ errors = 0

\* C4 amended: in a run that follows a complete run over the same
\* directory, every file whose sidecar exists when the run starts takes the
\* skip path: no extraction, no fetch, no counter changed.
C4_SecondRunSkipsFilesWithSidecar ==
    (Done /\ ranBefore >= 1 /\ diskAtStart[LastTxt] # Absent) =>
        /\ last.outcome = "AlreadyHasLyrics"
        /\ ~last.extracted
        /\ last.calls = <<>>
        /\ found = last.found0
        /\ errors = last.errors0
        /\ processed = last.processed0

\* The second run skips a file whose sidecar an earlier run wrote.
C4_Witness ==
    /\ Done
    /\ ranBefore >= 1
    /\ run = 2
    /\ diskAtStart[LastTxt] \notin {Absent, OldText}
    /\ last.outcome = "AlreadyHasLyrics"

\* C5 as stated: a file without a sidecar, with artist and title, for which
\* fetch_lyrics returns a text: afterwards the sidecar holds exactly that
\* text, found is one higher and errors is unchanged.
C5_FoundLyricsAreSaved ==
    (/\ Done
     /\ ~last.existed
     /\ Truthy(last.artist)
     /\ Truthy(last.title)
     /\ Truthy(last.lyrics)) =>
        /\ disk[LastTxt] = last.lyrics
        /\ found = last.found0 + 1
        /\ errors = last.errors0

\* C5 amended: the same file: when save_lyrics succeeds the sidecar holds
\* exactly the text, found is one higher and errors is unchanged; when
\* save_lyrics fails found and errors are both unchanged.
C5_FoundLyricsAreSavedUnlessSaveFails ==
    (/\ Done
     /\ ~last.existed
     /\ Truthy(last.artist)
     /\ Truthy(last.title)
     /\ Truthy(last.lyrics)) =>
        /\ errors = last.errors0
        /\ IF last.saved
           THEN disk[LastTxt] = last.lyrics /\ found = last.found0 + 1
           ELSE found = last.found0

\* A text of two characters was fetched and saved.
C5_Witness ==
    /\ Done
    /\ last.outcome = "LyricsFetched"
    /\ Len(last.lyrics) = 2
    /\ disk[LastTxt] = last.lyrics
    /\ found = 1

\* C6: a file with artist and title for which every source returns None:
\* fetch_lyrics returns None, no sidecar is written, errors is one higher
\* and found is unchanged.
C6_AllAbsentIsAnError ==
    (/\ Done
     /\ ~last.existed
     /\ Truthy(last.artist)
     /\ Truthy(last.title)
     /\ last.got = <<"absent", "absent", "absent">>) =>
        /\ last.lyrics = None
        /\ disk[LastTxt] = Absent
        /\ errors = last.errors0 + 1
        /\ found = last.found0

\* All three sources were consulted and returned None.
C6_Witness ==
    /\ Done
    /\ last.calls = Sources
    /\ last.got = <<"absent", "absent", "absent">>
    /\ last.outcome = "LyricsNotFound"
    /\ errors = last.errors0 + 1

\* C7 as stated: after a file that ends as MissingMetadata, LyricsFetched
\* or LyricsNotFound the pacing delay has elapsed.
C7_DelayAfterEveryNonSkip ==
    (Done /\ last.outcome \in {"MissingMetadata", "LyricsFetched",
                               "LyricsNotFound"}) =>
        now = last.now0 + Delay

\* C7 amended: the pacing delay elapses after every file for which
\* fetch_lyrics was called (lyrics fetched, not found, or save failed); no
\* delay elapses after a file with missing metadata or with a sidecar.
C7_DelayOnlyAfterFetch ==
    Done =>
        /\ last.outcome \in {"LyricsFetched", "LyricsNotFound", "SaveFailed"}
             => (last.calls # <<>> /\ now = last.now0 + Delay)
        /\ last.outcome \in {"MissingMetadata", "AlreadyHasLyrics"}
             => (last.calls = <<>> /\ now = last.now0)

\* A file with missing metadata was followed at once by the next file.
C7_Witness ==
    /\ Done
    /\ last.outcome = "MissingMetadata"
    /\ now = last.now0
    /\ queue # <<>>

\* C8: after an interruption that falls inside save_lyrics, the sidecar
\* that was opened holds the complete text fetched for it.
C8_InterruptionLeavesNoPartialFile ==
    (last.outcome = "Interrupted" /\ last.opened) =>
        disk[LastTxt] = last.lyrics

\* C9: fetch_lyrics returns a non-empty text or None, and the batch counts
\* a file as lyrics-not-found only after all three sources were consulted
\* and returned None.
C9_NotFoundOnlyAfterAllSources ==
    (Done /\ last.calls # <<>>) =>
        /\ last.lyrics = None \/ last.lyrics # <<>>
        /\ last.outcome = "LyricsNotFound"
             => last.got = <<"absent", "absent", "absent">>

\* C10: between files, processed counts the files passed to fetch_lyrics,
\* found is at most processed, errors counts the files with missing
\* metadata and those for which fetch_lyrics returned None, and processed
\* less found counts the latter and the files whose save failed.
C10_CounterAccounting ==
    /\ processed = tally.invoked
    /\ found <= processed
    /\ errors = tally.missing + tally.absent
    /\ processed = found + tally.absent + tally.saveFailed

=============================================================================
